---- MODULE Spec2Model ----
(***************************************************************************)
(* Model of orcid-sync-enriched.js: the ORCID -> CrossRef enrichment sync. *)
(* Strings are sequences of one-character strings, so that trimming,       *)
(* prefix stripping, case folding and edit distance are computed the way   *)
(* the JavaScript computes them.                                           *)
(***************************************************************************)
EXTENDS Integers, Sequences, FiniteSets, TLC

VARIABLES
  existing,   \* the publication store in memory (main's `existing`)
  call,       \* the last mergePapers call of MergeSpec: inputs, result, store before
  dedup,      \* the alreadyExists application of DedupSpec: inputs and result
  pure,       \* the application of PureSpec: a function of the script, its argument(s), its result
  env,        \* the documents on disk: mapping.json, publications.json, its backup
  pc,         \* main's position
  loop,       \* the local variables of main and fetchOrcidWorks
  net,        \* the outbound calls: how many are in flight, which were issued, the
              \* last one, the sleep since it, and the gap before the one in flight
  hist        \* what happened: the store as loaded, each researcher's outcome, the
              \* store file as found, how often it and its backup were written

vars == <<existing, call, dedup, pure, env, pc, loop, net, hist>>
runVars == <<env, pc, loop, net, hist>>

(***************************************************************************)
(* Bounds of the model.                                                    *)
(***************************************************************************)
MaxCands == 2      \* longest candidate list handed to one mergePapers call
MaxPapers == 3     \* most records the store holds in the merge specification
MaxExisting == 2   \* longest existing list handed to alreadyExists
MaxResearchers == 2   \* most entries of mapping.json
MaxGroups == 2     \* most work groups in one registry listing
MaxPieces == 3     \* most pieces (blank, prefix, identifier) of a DOI string
MaxTitleLen == 5   \* longest title handed to normalizeTitle on its own

(***************************************************************************)
(* Configuration constants of the script.                                  *)
(***************************************************************************)
DELAY_BETWEEN_ORCID_MS == 500
DELAY_BETWEEN_CROSSREF_MS == 200
MAX_TITLE_DISTANCE == 6
RETRY_DELAY_MS == 350      \* the literal of fetchCrossrefSafe's sleep(350)

(***************************************************************************)
(* Characters.                                                             *)
(***************************************************************************)
UpperSeq == <<"A","B","C","D","E","F","G","H","I","J","K","L","M",
              "N","O","P","Q","R","S","T","U","V","W","X","Y","Z">>
LowerSeq == <<"a","b","c","d","e","f","g","h","i","j","k","l","m",
              "n","o","p","q","r","s","t","u","v","w","x","y","z">>
DigitSeq == <<"0","1","2","3","4","5","6","7","8","9">>

Range(s) == {s[i] : i \in DOMAIN s}

Upper == Range(UpperSeq)
Lower == Range(LowerSeq)
Digit == Range(DigitSeq)
\* JavaScript's \s and the characters String.prototype.trim removes
Space == {" ", "\t", "\n", "\r"}
\* [a-zA-Z0-9 ]
AlnumOrBlank == Upper \cup Lower \cup Digit \cup {" "}

IsSpace(c) == c \in Space

LowerOf == [c \in Upper |-> LowerSeq[CHOOSE i \in DOMAIN UpperSeq : UpperSeq[i] = c]]

toLowerCaseChar(c) == IF c \in Upper THEN LowerOf[c] ELSE c

toLowerCase(s) == [i \in DOMAIN s |-> toLowerCaseChar(s[i])]

RECURSIVE trimStart(_)
trimStart(s) == IF s # <<>> /\ IsSpace(Head(s)) THEN trimStart(Tail(s)) ELSE s

RECURSIVE trimEnd(_)
trimEnd(s) ==
  IF s # <<>> /\ IsSpace(s[Len(s)]) THEN trimEnd(SubSeq(s, 1, Len(s) - 1)) ELSE s

trim(s) == trimEnd(trimStart(s))

StartsWith(s, p) == Len(s) >= Len(p) /\ SubSeq(s, 1, Len(p)) = p

\* The four strings matched by /^https?:\/\/(dx\.)?doi\.org\//i, lower-cased
DoiOrg == <<"d","o","i",".","o","r","g","/">>
DoiPrefixes ==
  { <<"h","t","t","p">> \o s \o <<":","/","/">> \o dx \o DoiOrg :
      s \in {<<>>, <<"s">>}, dx \in {<<>>, <<"d","x",".">>} }

\* d.replace(/^https?:\/\/(dx\.)?doi\.org\//i, '')
stripDoiPrefix(d) ==
  LET low == toLowerCase(d)
      hit == {p \in DoiPrefixes : StartsWith(low, p)}
  IN IF hit = {} THEN d
     ELSE LET p == CHOOSE q \in hit : TRUE IN SubSeq(d, Len(p) + 1, Len(d))

normalizeDOI(d) ==
  IF d = <<>> THEN <<>> ELSE toLowerCase(stripDoiPrefix(trim(d)))

\* t.replace(/\s+/g, ' ')
RECURSIVE collapseSpaces(_)
collapseSpaces(t) ==
  IF t = <<>> THEN <<>>
  ELSE IF IsSpace(Head(t))
       THEN <<" ">> \o collapseSpaces(trimStart(t))
       ELSE <<Head(t)>> \o collapseSpaces(Tail(t))

\* .replace(/[^a-zA-Z0-9 ]/g, '')
stripNonAlnum(t) ==
  SelectSeq(t, LAMBDA c : c \in AlnumOrBlank)

normalizeTitle(t) ==
  IF t = <<>> THEN <<>>
  ELSE toLowerCase(trim(stripNonAlnum(collapseSpaces(t))))

(***************************************************************************)
(* levenshtein-edit-distance: the classic edit distance, row by row.       *)
(***************************************************************************)
Min2(a, b) == IF a <= b THEN a ELSE b

RECURSIVE levRow(_, _, _, _, _)
levRow(prev, ch, b, row, j) ==
  IF j > Len(b) THEN row
  ELSE LET cost == IF ch = b[j] THEN 0 ELSE 1
           v == Min2(Min2(prev[j + 1] + 1, row[j] + 1), prev[j] + cost)
       IN levRow(prev, ch, b, Append(row, v), j + 1)

RECURSIVE levRows(_, _, _, _)
levRows(a, b, i, prev) ==
  IF i > Len(a) THEN prev
  ELSE levRows(a, b, i + 1, levRow(prev, a[i], b, <<i>>, 1))

levenshtein(a, b) ==
  IF a = b THEN 0
  ELSE IF a = <<>> THEN Len(b)
  ELSE IF b = <<>> THEN Len(a)
  ELSE levRows(a, b, 1, [j \in 1..(Len(b) + 1) |-> j - 1])[Len(b) + 1]

(***************************************************************************)
(* WorkRecord: the canonical record shape (transformOrcidWork's result).   *)
(* year 0 stands for the empty year ''.                                     *)
(***************************************************************************)
Paper(doi, title) ==
  [id |-> "", title |-> title, authors |-> <<>>, year |-> 0, venue |-> "",
   doi |-> doi, url |-> <<>>, source |-> "ORCID"]

\* for(const p of existingPapers){ if(p.doi && normalizeDOI(p.doi) === norm) return true; }
RECURSIVE doiLoop(_, _, _)
doiLoop(existingPapers, norm, i) ==
  IF i > Len(existingPapers) THEN FALSE
  ELSE IF existingPapers[i].doi # <<>> /\ normalizeDOI(existingPapers[i].doi) = norm
       THEN TRUE
       ELSE doiLoop(existingPapers, norm, i + 1)

\* for(const p of existingPapers){ pt = ...; if(!pt) continue; if(distance <= MAX) return true; }
RECURSIVE titleLoop(_, _, _)
titleLoop(existingPapers, nt, i) ==
  IF i > Len(existingPapers) THEN FALSE
  ELSE LET pt == normalizeTitle(existingPapers[i].title)
       IN IF pt = <<>> THEN titleLoop(existingPapers, nt, i + 1)
          ELSE IF levenshtein(nt, pt) <= MAX_TITLE_DISTANCE THEN TRUE
          ELSE titleLoop(existingPapers, nt, i + 1)

\* mutant: the DOI comparison forgets to normalize the stored DOI
alreadyExistsRawDoi(existingPapers, candidate) ==
  IF candidate.doi # <<>>
  THEN \E i \in DOMAIN existingPapers :
         existingPapers[i].doi # <<>>
         /\ existingPapers[i].doi = normalizeDOI(candidate.doi)
  ELSE IF candidate.title # <<>>
  THEN titleLoop(existingPapers, normalizeTitle(candidate.title), 1)
  ELSE FALSE

\* mutant: the title comparison uses < instead of <=
alreadyExistsStrict(existingPapers, candidate) ==
  IF candidate.doi # <<>>
  THEN doiLoop(existingPapers, normalizeDOI(candidate.doi), 1)
  ELSE IF candidate.title # <<>>
  THEN \E i \in DOMAIN existingPapers :
         LET pt == normalizeTitle(existingPapers[i].title)
         IN pt # <<>>
            /\ levenshtein(normalizeTitle(candidate.title), pt) < MAX_TITLE_DISTANCE
  ELSE FALSE

alreadyExists(existingPapers, candidate) ==
  IF candidate.doi # <<>>
  THEN doiLoop(existingPapers, normalizeDOI(candidate.doi), 1)
  ELSE IF candidate.title # <<>>
  THEN titleLoop(existingPapers, normalizeTitle(candidate.title), 1)
  ELSE FALSE

(***************************************************************************)
(* The publication store: a function from researcher keys to               *)
(* [name, papers]; a key outside its domain has no entry.                  *)
(***************************************************************************)
EmptyStore == [k \in {} |-> 0]

\* mutant: candidates are compared with the list as it was before the call,
\* not with the records pushed so far
RECURSIVE mergeLoopSnapshot(_, _, _, _)
mergeLoopSnapshot(existingArr, newPapers, i, added) ==
  IF i > Len(newPapers) THEN [papers |-> existingArr, added |-> added]
  ELSE IF ~alreadyExists(SubSeq(existingArr, 1, Len(existingArr) - added), newPapers[i])
       THEN mergeLoopSnapshot(Append(existingArr, newPapers[i]), newPapers, i + 1, added + 1)
       ELSE mergeLoopSnapshot(existingArr, newPapers, i + 1, added)

\* mutant: new records are put in front of the list (unshift for push)
RECURSIVE mergeLoopUnshift(_, _, _, _)
mergeLoopUnshift(existingArr, newPapers, i, added) ==
  IF i > Len(newPapers) THEN [papers |-> existingArr, added |-> added]
  ELSE IF ~alreadyExists(existingArr, newPapers[i])
       THEN mergeLoopUnshift(<<newPapers[i]>> \o existingArr, newPapers, i + 1, added + 1)
       ELSE mergeLoopUnshift(existingArr, newPapers, i + 1, added)

\* for(const np of newPapers){ if(!alreadyExists(existingArr, np)){ push; added++ } }
RECURSIVE mergeLoop(_, _, _, _)
mergeLoop(existingArr, newPapers, i, added) ==
  IF i > Len(newPapers) THEN [papers |-> existingArr, added |-> added]
  ELSE IF ~alreadyExists(existingArr, newPapers[i])
       THEN mergeLoop(Append(existingArr, newPapers[i]), newPapers, i + 1, added + 1)
       ELSE mergeLoop(existingArr, newPapers, i + 1, added)

mergePapers(store, facultyKey, facultyName, newPapers) ==
  LET created ==
        IF facultyKey \in DOMAIN store THEN store
        ELSE [k \in DOMAIN store \cup {facultyKey} |->
                IF k = facultyKey
                THEN [name |-> IF facultyName # "" THEN facultyName ELSE facultyKey,
                      papers |-> <<>>]
                ELSE store[k]]
      r == mergeLoop(created[facultyKey].papers, newPapers, 1, 0)
  IN [store |-> [created EXCEPT ![facultyKey].papers = r.papers],
      added |-> r.added]

(***************************************************************************)
(* Registry (ORCID) documents and transformOrcidWork.                      *)
(* An external identifier is [type, value, url]; '' is <<>> for character  *)
(* strings, "" for opaque strings and 0 for a year; authors are the list   *)
(* of names the script joins with ', '.                                    *)
(***************************************************************************)
\* (e['external-id-type'] || '').toLowerCase().includes('doi')
TypeIsDoi(type) == type \in {"doi", "DOI", "Doi"}

Or(a, b) == IF a # <<>> THEN a ELSE b        \* a || b on character strings
OrS(a, b) == IF a # "" THEN a ELSE b          \* a || b on opaque strings
OrN(a, b) == IF a # 0 THEN a ELSE b           \* a || b on years

\* for(const e of ext){ if(type.includes('doi')) return normalizeDOI(val || url); }
RECURSIVE extractLoop(_, _)
extractLoop(ext, i) ==
  IF i > Len(ext) THEN <<>>
  ELSE IF TypeIsDoi(ext[i].type) THEN normalizeDOI(Or(ext[i].value, ext[i].url))
  ELSE extractLoop(ext, i + 1)

extractDoiFromOrcidSummary(summary) == extractLoop(summary.extIds, 1)

\* (external_identifier || []).reduce((acc, id) => (!acc && t.includes('doi')) ? normalizeDOI(..) : acc, '')
RECURSIVE detailDoiReduce(_, _, _)
detailDoiReduce(ids, i, acc) ==
  IF i > Len(ids) THEN acc
  ELSE IF acc = <<>> /\ TypeIsDoi(ids[i].type)
       THEN detailDoiReduce(ids, i + 1, normalizeDOI(Or(ids[i].value, ids[i].url)))
       ELSE detailDoiReduce(ids, i + 1, acc)

NoDetail ==
  [present |-> FALSE, title |-> <<>>, year |-> 0, venue |-> "", sourceName |-> "",
   hasContributors |-> FALSE, contributors |-> <<>>, hasExtIds |-> FALSE,
   extIds |-> <<>>, url |-> <<>>]

transformOrcidWork(summary, detail) ==
  [id |-> IF summary.putCode # "" THEN summary.putCode ELSE "orcid_tmp",
   title |-> Or(detail.title, summary.title),
   authors |-> IF detail.present /\ detail.hasContributors
               THEN SelectSeq(detail.contributors, LAMBDA n : n # "")
               ELSE IF summary.displayName # "" THEN <<summary.displayName>> ELSE <<>>,
   year |-> OrN(detail.year, summary.year),
   venue |-> OrS(OrS(detail.venue, detail.sourceName), summary.venue),
   doi |-> IF detail.present /\ detail.hasExtIds
           THEN detailDoiReduce(detail.extIds, 1, <<>>)
           ELSE extractDoiFromOrcidSummary(summary),
   url |-> Or(detail.url, summary.path),
   source |-> "ORCID"]

(***************************************************************************)
(* Bibliographic (CrossRef) documents: fetchCrossref's mapping of the      *)
(* message (the second declaration of fetchCrossref, which is the one in   *)
(* force), and the overlay main applies.                                   *)
(***************************************************************************)
HttpsDoiOrg == <<"h","t","t","p","s",":","/","/">> \o DoiOrg

\* the value returned when fetchJson succeeds; doi is already normalized
crossrefRecord(msg, doi) ==
  [title |-> msg.title,
   authors |-> SelectSeq(msg.authors, LAMBDA n : n # ""),
   year |-> OrN(OrN(msg.print, msg.online), msg.issued),
   venue |-> OrS(msg.container, msg.publisher),
   doi |-> doi,
   url |-> Or(msg.URL, HttpsDoiOrg \o doi)]

\* mutant: a failed lookup drops the registry title as well
registryOnlyDropsTitle(op) == [op EXCEPT !.doi = normalizeDOI(op.doi), !.title = <<>>]

\* final when cr is null or the lookup threw: ORCID fields, DOI normalized
registryOnly(op) == [op EXCEPT !.doi = normalizeDOI(op.doi)]

\* mutant: the registry value wins where both are present
overlayRegistryFirst(op, cr) ==
  [op EXCEPT !.title = Or(op.title, cr.title),
             !.authors = Or(op.authors, cr.authors),
             !.year = OrN(op.year, cr.year),
             !.venue = OrS(op.venue, cr.venue),
             !.url = Or(Or(op.url, cr.url), HttpsDoiOrg \o normalizeDOI(op.doi)),
             !.doi = normalizeDOI(op.doi),
             !.source = "CrossRef/ORCID"]

\* final when cr is a record
overlay(op, cr) ==
  [op EXCEPT !.title = Or(cr.title, op.title),
             !.authors = Or(cr.authors, op.authors),
             !.year = OrN(cr.year, op.year),
             !.venue = OrS(cr.venue, op.venue),
             !.url = Or(Or(cr.url, op.url), HttpsDoiOrg \o normalizeDOI(op.doi)),
             !.doi = normalizeDOI(op.doi),
             !.source = "CrossRef/ORCID"]

(***************************************************************************)
(* Input strings.                                                          *)
(***************************************************************************)
Rep(c, n) == [i \in 1..n |-> c]

TitleEmpty == <<>>
TitlePunct == <<"!", "!">>                        \* normalizes to ''
TitleA6 == Rep("a", 6)
TitleA6Variant == <<"A", "a", "-", "a", "a", "a", "a">>   \* normalizes to aaaaaa
TitleB7 == Rep("b", 7)
Titles == {TitleEmpty, TitlePunct, TitleA6, TitleA6Variant, TitleB7}

DoiEmpty == <<>>
DoiX == <<"1", "0", ".", "1", "/", "x">>
DoiXUrl == <<"h","t","t","p","s",":","/","/">> \o DoiOrg \o <<"1", "0", ".", "1", "/", "X">>
DoiY == <<"1", "0", ".", "2", "/", "y">>
DoiBarePrefix == <<"h","t","t","p","s",":","/","/">> \o DoiOrg   \* normalizes to ''

Keys == {"k1", "k2"}
\* the display name handed over with each key; '' makes the key the name
NameOf == [k \in Keys |-> IF k = "k1" THEN "Jane Doe" ELSE ""]

MergeCandidates ==
  { Paper(DoiEmpty, TitleEmpty), Paper(DoiEmpty, TitlePunct), Paper(DoiEmpty, TitleA6),
    Paper(DoiX, TitleA6), Paper(DoiXUrl, TitleB7) }

DedupPapers ==
  MergeCandidates \cup
  { Paper(DoiEmpty, TitleB7), Paper(DoiEmpty, TitleA6Variant),
    Paper(DoiBarePrefix, TitleA6), Paper(DoiY, TitleEmpty) }

SeqsUpTo(S, n) == UNION {[1..m -> S] : m \in 0..n}

MergeCandLists == SeqsUpTo(MergeCandidates, MaxCands)
DedupLists == SeqsUpTo(DedupPapers, MaxExisting)

(***************************************************************************)
(* The state when a part of the program is not being exercised.            *)
(***************************************************************************)
NoCall ==
  [phase |-> "none", key |-> "", name |-> "", cands |-> <<>>, added |-> 0,
   before |-> EmptyStore, repeat |-> FALSE]

NoDedup ==
  [phase |-> "none", list |-> <<>>, candidate |-> Paper(DoiEmpty, TitleEmpty),
   result |-> FALSE]

NoPure == [fn |-> "none", phase |-> "none"]

(***************************************************************************)
(* The run's inputs: mapping.json, the store on disk, and what the two     *)
(* services answer.                                                        *)
(***************************************************************************)
KeySeq == <<"k1", "k2", "k3", "k4">>

\* orcid: "absent" when the entry has no orcid field
OrcidValues == {"absent", "", "0000-0001"}

Mappings ==
  {[present |-> FALSE, entries |-> <<>>]} \cup
  { [present |-> TRUE,
     entries |-> [i \in 1..n |->
                    [key |-> KeySeq[i],
                     name |-> IF i = 1 THEN "Jane Doe" ELSE "",
                     orcid |-> o[i]]]] :
      n \in 0..MaxResearchers, o \in [1..MaxResearchers -> OrcidValues] }

PriorStore ==
  [k \in {"k1"} |-> [name |-> "Jane Doe", papers |-> <<Paper(DoiX, TitleA6)>>]]

NoFile == [exists |-> FALSE, content |-> EmptyStore]
StoreFiles == {NoFile, [exists |-> TRUE, content |-> PriorStore]}

SummaryDoi ==
  [putCode |-> "p1", title |-> TitleA6, year |-> 2019, venue |-> "",
   displayName |-> "J. Doe",
   extIds |-> <<[type |-> "DOI", value |-> <<>>, url |-> DoiXUrl]>>, path |-> <<>>]

SummaryPlain ==
  [putCode |-> "", title |-> TitleB7, year |-> 0, venue |-> "Venue",
   displayName |-> "",
   extIds |-> <<[type |-> "eid", value |-> <<"7">>, url |-> <<>>]>>, path |-> <<>>]

\* a group is its 'work-summary' array
GroupKinds == {<<>>, <<SummaryDoi>>, <<SummaryPlain>>}
Listings == SeqsUpTo(GroupKinds, MaxGroups)

DetailFull ==
  [present |-> TRUE, title |-> TitleA6Variant, year |-> 2020, venue |-> "Journal X",
   sourceName |-> "", hasContributors |-> TRUE, contributors |-> <<"Jane Doe", "">>,
   hasExtIds |-> TRUE, extIds |-> <<[type |-> "doi", value |-> DoiX, url |-> <<>>]>>,
   url |-> <<>>]

Details == {DetailFull, [NoDetail EXCEPT !.present = TRUE]}

MsgFull ==
  [title |-> <<"F", "o", "o">>, authors |-> <<"Jane Doe">>, print |-> 0,
   online |-> 2020, issued |-> 2021, container |-> "Journal X", publisher |-> "",
   URL |-> <<>>]

MsgSparse ==
  [title |-> <<>>, authors |-> <<>>, print |-> 0, online |-> 0, issued |-> 0,
   container |-> "", publisher |-> "", URL |-> <<>>]

CrossrefMessages == {MsgFull, MsgSparse}

(***************************************************************************)
(* The run's variables when the run is not being exercised.                *)
(***************************************************************************)
\* how: per record of papers, what became of its detail fetch; crs: per
\* record of enriched, the lookup's answer; calls, failed1: the lookups
\* issued for the work at hand and whether the first attempt failed
NoCr == [present |-> FALSE]
NoLocals ==
  [groups |-> <<>>, gi |-> 0, detail |-> NoDetail, papers |-> <<>>, how |-> <<>>,
   orcidPapers |-> <<>>, oi |-> 0, enriched |-> <<>>, crs |-> <<>>, attempt |-> 0,
   calls |-> 0, failed1 |-> FALSE]

NoLoop == [idx |-> 0, totalAdded |-> 0, locals |-> NoLocals]

\* no call was issued yet; no call is in flight
NoCallYet == [kind |-> "none", idx |-> 0]
NoGap == [after |-> NoCallYet, slept |-> 0]
NoNet == [inFlight |-> 0, issued |-> {}, last |-> NoCallYet, slept |-> 0, gap |-> NoGap]

IdleRun ==
  /\ env = [mapping |-> [present |-> FALSE, entries |-> <<>>], file |-> NoFile,
            backup |-> NoFile]
  /\ pc = "idle"
  /\ loop = NoLoop
  /\ net = NoNet
  /\ hist = [loaded |-> EmptyStore, outcome |-> <<>>, lookup |-> "none",
             file0 |-> NoFile, writes |-> 0, copies |-> 0]

(***************************************************************************)
(* MergeSpec: any sequence of mergePapers calls from an empty store.       *)
(* call records the last call: its inputs, its return value and the store  *)
(* before it.                                                              *)
(***************************************************************************)
RECURSIVE SumLen(_, _)
SumLen(store, ks) ==
  IF ks = {} THEN 0
  ELSE LET k == CHOOSE x \in ks : TRUE
       IN Len(store[k].papers) + SumLen(store, ks \ {k})

TotalPapers(store) == SumLen(store, DOMAIN store)

\* the calls the bound on the store's size leaves room for
Room == MaxPapers - TotalPapers(existing)

MergeInit ==
  existing = EmptyStore /\ call = NoCall /\ dedup = NoDedup /\ pure = NoPure /\ IdleRun

MergeCall(k, cands) ==
  /\ LET r == mergePapers(existing, k, NameOf[k], cands)
     IN /\ existing' = r.store
        /\ call' = [phase |-> "called", key |-> k, name |-> NameOf[k], cands |-> cands,
                    added |-> r.added, before |-> existing, repeat |-> FALSE]
  /\ UNCHANGED <<dedup, pure, runVars>>

\* the same call a second time: same key, same candidate list
MergeAgain ==
  /\ call.phase = "called"
  /\ Len(call.cands) <= Room
  /\ LET r == mergePapers(existing, call.key, call.name, call.cands)
     IN /\ existing' = r.store
        /\ call' = [call EXCEPT !.added = r.added, !.before = existing, !.repeat = TRUE]
  /\ UNCHANGED <<dedup, pure, runVars>>

MergeNext ==
  \/ LET room == Room
     IN \E cands \in {c \in MergeCandLists : Len(c) <= room}, k \in Keys :
          MergeCall(k, cands)
  \/ MergeAgain

MergeSpec == MergeInit /\ [][MergeNext]_vars

(***************************************************************************)
(* DedupSpec: alreadyExists as a pure function of (existing list,          *)
(* candidate).                                                             *)
(***************************************************************************)
DedupInit ==
  /\ existing = EmptyStore
  /\ call = NoCall
  /\ pure = NoPure
  /\ IdleRun
  /\ \E list \in DedupLists, c \in DedupPapers :
       dedup = [phase |-> "input", list |-> list, candidate |-> c, result |-> FALSE]

DedupApply ==
  /\ dedup.phase = "input"
  /\ dedup' = [dedup EXCEPT !.phase = "output",
                            !.result = alreadyExists(dedup.list, dedup.candidate)]
  /\ UNCHANGED <<existing, call, pure, runVars>>

DedupNext == DedupApply

DedupSpec == DedupInit /\ [][DedupNext]_vars

(***************************************************************************)
(* PureSpec: normalizeDOI, normalizeTitle and transformOrcidWork as pure   *)
(* functions of their arguments.  '' stands for an absent argument as      *)
(* well: `if(!d) return ''` treats both alike.                             *)
(***************************************************************************)
RECURSIVE Flatten(_)
Flatten(ss) == IF ss = <<>> THEN <<>> ELSE Head(ss) \o Flatten(Tail(ss))

DoiPieces ==
  { <<" ">>,
    HttpsDoiOrg,
    <<"H","T","T","P",":","/","/","D","X",".","D","O","I",".","O","R","G","/">>,
    <<"1", "0", ".", "1", "/", "X">> }
DoiInputs == {Flatten(ps) : ps \in SeqsUpTo(DoiPieces, MaxPieces)}

TitleChars == {"a", "B", "1", " ", "\t", "-"}
TitleInputs == SeqsUpTo(TitleChars, MaxTitleLen)

\* a detail whose external identifiers hold none of DOI type
DetailOtherIds ==
  [NoDetail EXCEPT !.present = TRUE, !.hasExtIds = TRUE,
                   !.extIds = <<[type |-> "eid", value |-> <<"7">>, url |-> <<>>]>>]
TransformSummaries == {SummaryDoi, SummaryPlain}
TransformDetails == Details \cup {NoDetail, DetailOtherIds}

PureInit ==
  /\ existing = EmptyStore
  /\ call = NoCall
  /\ dedup = NoDedup
  /\ IdleRun
  /\ \/ \E d \in DoiInputs : pure = [fn |-> "normalizeDOI", phase |-> "input", arg |-> d]
     \/ \E t \in TitleInputs : pure = [fn |-> "normalizeTitle", phase |-> "input", arg |-> t]
     \/ \E sm \in TransformSummaries, dt \in TransformDetails :
          pure = [fn |-> "transformOrcidWork", phase |-> "input", summary |-> sm,
                  detail |-> dt]

\* normalizeDOI(d), and normalizeDOI of its result
ApplyNormalizeDOI ==
  /\ pure.fn = "normalizeDOI" /\ pure.phase = "input"
  /\ pure' = [fn |-> pure.fn, phase |-> "output", arg |-> pure.arg,
              out |-> normalizeDOI(pure.arg),
              again |-> normalizeDOI(normalizeDOI(pure.arg))]
  /\ UNCHANGED <<existing, call, dedup, runVars>>

ApplyNormalizeTitle ==
  /\ pure.fn = "normalizeTitle" /\ pure.phase = "input"
  /\ pure' = [fn |-> pure.fn, phase |-> "output", arg |-> pure.arg,
              out |-> normalizeTitle(pure.arg)]
  /\ UNCHANGED <<existing, call, dedup, runVars>>

ApplyTransform ==
  /\ pure.fn = "transformOrcidWork" /\ pure.phase = "input"
  /\ pure' = [fn |-> pure.fn, phase |-> "output", summary |-> pure.summary,
              detail |-> pure.detail,
              out |-> transformOrcidWork(pure.summary, pure.detail)]
  /\ UNCHANGED <<existing, call, dedup, runVars>>

PureNext == ApplyNormalizeDOI \/ ApplyNormalizeTitle \/ ApplyTransform

PureSpec == PureInit /\ [][PureNext]_vars

(***************************************************************************)
(* RunSpec: one run of main.  Each action is the code from one suspension  *)
(* point (an await of a fetch or of a sleep) to the next; a fetch is       *)
(* issued by one action and answered, by the service, in another.          *)
(***************************************************************************)
Entries == env.mapping.entries
Entry == Entries[loop.idx]
L == loop.locals

\* !info || !info.orcid
NoOrcidUndefinedOnly(info) == info.orcid = "absent"    \* mutant: only undefined is tested
NoOrcid(info) == info.orcid \in {"absent", ""}

\* info.name || facultyKey
fname(info) == OrS(info.name, info.key)

\* a fetch is issued after the last sleep of ms milliseconds (0: no sleep
\* since the call before it); gap records what it follows while it is in flight
IssueSlept(kind, ms) ==
  net' = [inFlight |-> net.inFlight + 1,
          issued |-> net.issued \cup {<<kind, loop.idx>>},
          last |-> [kind |-> kind, idx |-> loop.idx],
          slept |-> 0,
          gap |-> [after |-> net.last, slept |-> ms]]
Issue(kind) == IssueSlept(kind, net.slept)
Answered == net' = [net EXCEPT !.inFlight = net.inFlight - 1, !.gap = NoGap]
\* await sleep(ms) is over
Slept(ms) == net' = [net EXCEPT !.slept = ms]

SetOutcome(o) == hist' = [hist EXCEPT !.outcome[loop.idx] = o, !.lookup = "none"]

\* the next iteration of for(const facultyKey of Object.keys(mapping))
NextResearcher == loop' = [loop EXCEPT !.idx = loop.idx + 1, !.locals = NoLocals]

RunInit ==
  /\ existing = EmptyStore
  /\ call = NoCall
  /\ dedup = NoDedup
  /\ pure = NoPure
  /\ \E m \in Mappings, f \in StoreFiles :
       /\ env = [mapping |-> m, file |-> f, backup |-> NoFile]
       /\ hist = [loaded |-> EmptyStore,
                  outcome |-> [i \in DOMAIN m.entries |-> "pending"],
                  lookup |-> "none", file0 |-> f, writes |-> 0, copies |-> 0]
  /\ pc = "start"
  /\ loop = NoLoop
  /\ net = NoNet

\* lines 216-220: mapping.json missing, unreadable or empty: process.exit(1)
StartFatal ==
  /\ pc = "start"
  /\ ~env.mapping.present \/ Entries = <<>>
  /\ pc' = "exit1"
  /\ UNCHANGED <<existing, call, dedup, pure, env, loop, net, hist>>

\* mutant: the mapping is not tested before the run starts
StartRunUnchecked ==
  /\ pc = "start"
  /\ existing' = IF env.file.exists THEN env.file.content ELSE EmptyStore
  /\ hist' = [hist EXCEPT !.loaded = existing']
  /\ loop' = [loop EXCEPT !.idx = 1]
  /\ pc' = "loop"
  /\ UNCHANGED <<call, dedup, pure, env, net>>

\* lines 216-226: read the mapping and the store (or start empty)
StartRun ==
  /\ pc = "start"
  /\ env.mapping.present /\ Entries # <<>>
  /\ existing' = IF env.file.exists THEN env.file.content ELSE EmptyStore
  /\ hist' = [hist EXCEPT !.loaded = existing']
  /\ loop' = [loop EXCEPT !.idx = 1]
  /\ pc' = "loop"
  /\ UNCHANGED <<call, dedup, pure, env, net>>

\* lines 229-232: no ORCID in the mapping: log and continue
SkipResearcher ==
  /\ pc = "loop"
  /\ loop.idx <= Len(Entries)
  /\ NoOrcid(Entry)
  /\ SetOutcome("skipped")
  /\ NextResearcher
  /\ UNCHANGED <<existing, call, dedup, pure, env, pc, net>>

\* lines 233-237, 114-115: the listing fetch is issued and awaited
IssueListing ==
  /\ pc = "loop"
  /\ loop.idx <= Len(Entries)
  /\ ~NoOrcid(Entry)
  /\ Issue("listing")
  /\ pc' = "listing"
  /\ UNCHANGED <<existing, call, dedup, pure, env, loop, hist>>

\* line 116: the listing arrived
ListingOk(groups) ==
  /\ pc = "listing"
  /\ Answered
  /\ loop' = [loop EXCEPT !.locals = [NoLocals EXCEPT !.groups = groups, !.gi = 1]]
  /\ pc' = "groups"
  /\ UNCHANGED <<existing, call, dedup, pure, env, hist>>

\* mutant: a failed listing ends the loop (the catch outside the for)
ListingFailEndsLoop ==
  /\ pc = "listing"
  /\ Answered
  /\ SetOutcome("failed")
  /\ loop' = [loop EXCEPT !.idx = Len(Entries) + 1, !.locals = NoLocals]
  /\ pc' = "loop"
  /\ UNCHANGED <<existing, call, dedup, pure, env>>

\* lines 115, 277-279: fetchJson threw; caught at the researcher boundary
ListingFail ==
  /\ pc = "listing"
  /\ Answered
  /\ SetOutcome("failed")
  /\ NextResearcher
  /\ pc' = "loop"
  /\ UNCHANGED <<existing, call, dedup, pure, env>>

\* papers.push(transformOrcidWork(summary, detail)); how: "none" without
\* put-code, "failed" when the detail fetch threw, "ok" when it answered
PushPaperHow(detail, how) ==
  loop' = [loop EXCEPT
             !.locals.papers = Append(@, transformOrcidWork(L.groups[L.gi][1], detail)),
             !.locals.how = Append(@, how),
             !.locals.gi = @ + 1,
             !.locals.detail = NoDetail]
PushPaper(detail) == PushPaperHow(detail, "none")

\* lines 119-120: a group without summaries
GroupEmpty ==
  /\ pc = "groups"
  /\ L.gi <= Len(L.groups)
  /\ L.groups[L.gi] = <<>>
  /\ loop' = [loop EXCEPT !.locals.gi = @ + 1]
  /\ UNCHANGED <<existing, call, dedup, pure, env, pc, net, hist>>

\* lines 121-125, 135-136: a summary without put-code: no detail fetch
GroupNoPutCode ==
  /\ pc = "groups"
  /\ L.gi <= Len(L.groups)
  /\ L.groups[L.gi] # <<>>
  /\ L.groups[L.gi][1].putCode = ""
  /\ PushPaper(NoDetail)
  /\ UNCHANGED <<existing, call, dedup, pure, env, pc, net, hist>>

\* mutant: the detail fetch is not awaited
IssueDetailNoAwait ==
  /\ pc = "groups"
  /\ L.gi <= Len(L.groups)
  /\ L.groups[L.gi] # <<>>
  /\ L.groups[L.gi][1].putCode # ""
  /\ Issue("detail")
  /\ PushPaper(NoDetail)
  /\ UNCHANGED <<existing, call, dedup, pure, env, pc, hist>>

\* lines 125-129: the detail fetch is issued and awaited
IssueDetail ==
  /\ pc = "groups"
  /\ L.gi <= Len(L.groups)
  /\ L.groups[L.gi] # <<>>
  /\ L.groups[L.gi][1].putCode # ""
  /\ Issue("detail")
  /\ pc' = "detail"
  /\ UNCHANGED <<existing, call, dedup, pure, env, loop, hist>>

\* lines 129-130: the detail arrived; sleep(DELAY_BETWEEN_ORCID_MS/2)
DetailOk(d) ==
  /\ pc = "detail"
  /\ Answered
  /\ loop' = [loop EXCEPT !.locals.detail = d]
  /\ pc' = "detail_sleep"
  /\ UNCHANGED <<existing, call, dedup, pure, env, hist>>

\* mutant: a failed detail fetch drops the work
DetailFailDropsWork ==
  /\ pc = "detail"
  /\ Answered
  /\ loop' = [loop EXCEPT !.locals.gi = @ + 1]
  /\ pc' = "groups"
  /\ UNCHANGED <<existing, call, dedup, pure, env, hist>>

\* lines 131-136: the detail fetch failed: proceed with the summary
DetailFail ==
  /\ pc = "detail"
  /\ Answered
  /\ PushPaperHow(NoDetail, "failed")
  /\ pc' = "groups"
  /\ UNCHANGED <<existing, call, dedup, pure, env, hist>>

\* lines 130, 135-136: the sleep is over
DetailSleepDone ==
  /\ pc = "detail_sleep"
  /\ PushPaperHow(L.detail, "ok")
  /\ Slept(DELAY_BETWEEN_ORCID_MS \div 2)
  /\ pc' = "groups"
  /\ UNCHANGED <<existing, call, dedup, pure, env, hist>>

\* lines 138, 237-242: fetchOrcidWorks returns
GroupsDone ==
  /\ pc = "groups"
  /\ L.gi > Len(L.groups)
  /\ loop' = [loop EXCEPT !.locals.orcidPapers = L.papers, !.locals.oi = 1,
                          !.locals.enriched = <<>>, !.locals.how = <<>>]
  /\ pc' = "works"
  /\ UNCHANGED <<existing, call, dedup, pure, env, net, hist>>

Op == L.orcidPapers[L.oi]

\* enriched.push(final), and on to the next work
PushFinalCr(final, lookup, cr) ==
  /\ loop' = [loop EXCEPT !.locals.enriched = Append(@, final),
                          !.locals.crs = Append(@, cr),
                          !.locals.oi = @ + 1, !.locals.attempt = 0,
                          !.locals.calls = 0, !.locals.failed1 = FALSE]
  /\ hist' = [hist EXCEPT !.lookup = lookup]
PushFinal(final, lookup) == PushFinalCr(final, lookup, NoCr)

\* lines 243-244, 263-266: a work without DOI keeps the ORCID fields
WorkNoDoi ==
  /\ pc = "works"
  /\ L.oi <= Len(L.orcidPapers)
  /\ Op.doi = <<>>
  /\ PushFinal(Op, "nodoi")
  /\ UNCHANGED <<existing, call, dedup, pure, env, pc, net>>

\* lines 244-246: sleep(DELAY_BETWEEN_CROSSREF_MS) before the lookup
WorkSleep ==
  /\ pc = "works"
  /\ L.oi <= Len(L.orcidPapers)
  /\ Op.doi # <<>>
  /\ pc' = "cr_sleep"
  /\ UNCHANGED <<existing, call, dedup, pure, env, loop, net, hist>>

\* lines 247, 299, 310-313: first attempt; an empty normalized DOI throws
\* before any fetch and leads to the retry
FirstAttempt ==
  /\ pc = "cr_sleep"
  /\ IF normalizeDOI(Op.doi) = <<>>
     THEN /\ loop' = [loop EXCEPT !.locals.attempt = 1, !.locals.failed1 = TRUE]
          /\ pc' = "retry_sleep"
          /\ Slept(DELAY_BETWEEN_CROSSREF_MS)
     ELSE /\ loop' = [loop EXCEPT !.locals.attempt = 1, !.locals.calls = @ + 1]
          /\ pc' = "crossref"
          /\ IssueSlept("crossref", DELAY_BETWEEN_CROSSREF_MS)
  /\ UNCHANGED <<existing, call, dedup, pure, env, hist>>

\* lines 313-325, 248-255: the lookup answered: overlay it
CrossrefOk(msg) ==
  /\ pc = "crossref"
  /\ Answered
  /\ LET cr == crossrefRecord(msg, normalizeDOI(Op.doi))
     IN PushFinalCr(overlay(Op, cr), "ok", [present |-> TRUE, rec |-> cr])
  /\ pc' = "works"
  /\ UNCHANGED <<existing, call, dedup, pure, env>>

\* mutant: the retry is issued at once, without the wait
CrossrefFailFirstNoWait ==
  /\ pc = "crossref"
  /\ L.attempt = 1
  /\ net' = [net EXCEPT !.gap = [after |-> net.last, slept |-> 0]]
  /\ loop' = [loop EXCEPT !.locals.attempt = 2, !.locals.calls = @ + 1,
                          !.locals.failed1 = TRUE]
  /\ UNCHANGED <<existing, call, dedup, pure, env, pc, hist>>

\* lines 301-303: the first attempt failed: sleep(350)
CrossrefFailFirst ==
  /\ pc = "crossref"
  /\ L.attempt = 1
  /\ Answered
  /\ loop' = [loop EXCEPT !.locals.failed1 = TRUE]
  /\ pc' = "retry_sleep"
  /\ UNCHANGED <<existing, call, dedup, pure, env, hist>>

\* line 304: the retry, or null when the DOI is empty again
SecondAttempt ==
  /\ pc = "retry_sleep"
  /\ IF normalizeDOI(Op.doi) = <<>>
     THEN /\ PushFinal(registryOnly(Op), "failed")
          /\ pc' = "works"
          /\ Slept(RETRY_DELAY_MS)
     ELSE /\ loop' = [loop EXCEPT !.locals.attempt = 2, !.locals.calls = @ + 1]
          /\ pc' = "crossref"
          /\ IssueSlept("crossref", RETRY_DELAY_MS)
          /\ UNCHANGED hist
  /\ UNCHANGED <<existing, call, dedup, pure, env>>

\* lines 304, 256-258: the retry failed too: null, keep the ORCID data
CrossrefFailSecond ==
  /\ pc = "crossref"
  /\ L.attempt = 2
  /\ Answered
  /\ PushFinal(registryOnly(Op), "failed")
  /\ pc' = "works"
  /\ UNCHANGED <<existing, call, dedup, pure, env>>

\* line 267-272: every work is enriched
WorksDone ==
  /\ pc = "works"
  /\ L.oi > Len(L.orcidPapers)
  /\ pc' = "merge"
  /\ UNCHANGED <<existing, call, dedup, pure, env, loop, net, hist>>

\* lines 272-276: merge, count, then sleep(DELAY_BETWEEN_ORCID_MS)
Merge ==
  /\ pc = "merge"
  /\ LET r == mergePapers(existing, Entry.key, fname(Entry), L.enriched)
     IN /\ existing' = r.store
        /\ loop' = [loop EXCEPT !.totalAdded = @ + r.added]
  /\ SetOutcome("merged")
  /\ pc' = "orcid_sleep"
  /\ UNCHANGED <<call, dedup, pure, env, net>>

\* line 276, 280: the sleep is over
OrcidSleepDone ==
  /\ pc = "orcid_sleep"
  /\ NextResearcher
  /\ Slept(DELAY_BETWEEN_ORCID_MS)
  /\ pc' = "loop"
  /\ UNCHANGED <<existing, call, dedup, pure, env, hist>>

\* mutant: the backup is a copy of the store as it is about to be written
BackupOfNew ==
  /\ pc = "loop"
  /\ loop.idx > Len(Entries)
  /\ env' = [env EXCEPT !.backup = [exists |-> TRUE, content |-> existing]]
  /\ hist' = [hist EXCEPT !.copies = @ + 1]
  /\ pc' = "write"
  /\ UNCHANGED <<existing, call, dedup, pure, loop, net>>

\* lines 227, 283-288: the loop is over; back up the old file if there is one
Backup ==
  /\ pc = "loop"
  /\ loop.idx > Len(Entries)
  /\ env' = [env EXCEPT !.backup = IF env.file.exists THEN env.file ELSE @]
  /\ hist' = [hist EXCEPT !.copies = IF env.file.exists THEN @ + 1 ELSE @]
  /\ pc' = "write"
  /\ UNCHANGED <<existing, call, dedup, pure, loop, net>>

\* lines 289-290: writeJSON(DATA_FILE, existing)
Write ==
  /\ pc = "write"
  /\ env' = [env EXCEPT !.file = [exists |-> TRUE, content |-> existing]]
  /\ hist' = [hist EXCEPT !.writes = @ + 1]
  /\ pc' = "done"
  /\ UNCHANGED <<existing, call, dedup, pure, loop, net>>

\* every step but the arrival of a listing
RunSteps ==
  \/ StartFatal
  \/ StartRun
  \/ SkipResearcher
  \/ IssueListing
  \/ ListingFail
  \/ GroupEmpty
  \/ GroupNoPutCode
  \/ IssueDetail
  \/ \E d \in Details : DetailOk(d)
  \/ DetailFail
  \/ DetailSleepDone
  \/ GroupsDone
  \/ WorkNoDoi
  \/ WorkSleep
  \/ FirstAttempt
  \/ \E msg \in CrossrefMessages : CrossrefOk(msg)
  \/ CrossrefFailFirst
  \/ SecondAttempt
  \/ CrossrefFailSecond
  \/ WorksDone
  \/ Merge
  \/ OrcidSleepDone
  \/ Backup
  \/ Write

RunNext ==
  \/ \E groups \in Listings : ListingOk(groups)
  \/ RunSteps

RunSpec == RunInit /\ [][RunNext]_vars

(***************************************************************************)
(* RunDoiSpec: the same run, with listings of one group whose summary      *)
(* carries one of several raw DOI strings.                                 *)
(***************************************************************************)
RawDois ==
  { DoiXUrl,
    DoiBarePrefix,
    HttpsDoiOrg \o HttpsDoiOrg,
    HttpsDoiOrg \o HttpsDoiOrg \o DoiX,
    HttpsDoiOrg \o HttpsDoiOrg \o HttpsDoiOrg \o DoiX,
    HttpsDoiOrg \o <<" ">> \o DoiX }

DoiSummary(raw, putCode) ==
  [SummaryDoi EXCEPT !.putCode = putCode,
                     !.extIds = <<[type |-> "doi", value |-> raw, url |-> <<>>]>>]

DoiListings ==
  {<<>>, << <<>> >>} \cup
  { << <<DoiSummary(raw, putCode)>> >> : raw \in RawDois, putCode \in {"", "p1"} }

RunDoiNext ==
  \/ \E groups \in DoiListings : ListingOk(groups)
  \/ RunSteps

RunDoiSpec == RunInit /\ [][RunDoiNext]_vars

(***************************************************************************)
(* Claims about mergePapers (MergeSpec).                                   *)
(***************************************************************************)
PapersOf(store, k) == IF k \in DOMAIN store THEN store[k].papers ELSE <<>>

\* C1 as stated: in one researcher's list no two distinct records are
\* duplicates of each other under alreadyExists, whichever of the two is
\* taken as the candidate.
C1_NoTwoDuplicatesEitherWay ==
  \A k \in DOMAIN existing :
    \A i, j \in DOMAIN existing[k].papers :
      i # j => ~alreadyExists(<<existing[k].papers[i]>>, existing[k].papers[j])

\* C1 amended: in one researcher's list no record, taken as the candidate,
\* is a duplicate under alreadyExists of the records stored before it.
C1_NoDuplicateOfEarlier ==
  \A k \in DOMAIN existing :
    \A j \in DOMAIN existing[k].papers :
      ~alreadyExists(SubSeq(existing[k].papers, 1, j - 1), existing[k].papers[j])

\* a list holding a record without DOI followed by a record with a DOI and
\* the same title: the earlier one, as candidate, duplicates the later one
C1_Witness ==
  \E k \in DOMAIN existing :
    \E i, j \in DOMAIN existing[k].papers :
      /\ i < j
      /\ existing[k].papers[i].doi = <<>>
      /\ existing[k].papers[j].doi # <<>>
      /\ alreadyExists(<<existing[k].papers[j]>>, existing[k].papers[i])

\* C2 as stated: a second mergePapers call with the same key and candidate
\* list returns 0 added and leaves the researcher's list unchanged.
C2_ResyncIdempotent ==
  call.repeat =>
    /\ call.added = 0
    /\ PapersOf(existing, call.key) = PapersOf(call.before, call.key)

\* the subsequence of s at the indices in S, in order
RECURSIVE PickFrom(_, _, _)
PickFrom(s, S, i) ==
  IF i > Len(s) THEN <<>>
  ELSE (IF i \in S THEN <<s[i]>> ELSE <<>>) \o PickFrom(s, S, i + 1)

\* C3: after every mergePapers call the list before the call is a prefix of
\* the list after it, the appended records are exactly the candidates judged
\* non-duplicate (against the list as it stood when each was judged), in
\* candidate order, their number is the value returned, and the entries of
\* all other keys are unchanged.
C3_AppendOnly ==
  call.phase = "called" =>
    LET old == PapersOf(call.before, call.key)
        new == PapersOf(existing, call.key)
        appended == SubSeq(new, Len(old) + 1, Len(new))
    IN /\ DOMAIN existing = DOMAIN call.before \cup {call.key}
       /\ \A k \in DOMAIN call.before \ {call.key} : existing[k] = call.before[k]
       /\ call.key \in DOMAIN call.before =>
            existing[call.key].name = call.before[call.key].name
       /\ Len(new) >= Len(old)
       /\ SubSeq(new, 1, Len(old)) = old
       /\ Len(appended) = call.added
       /\ \E S \in SUBSET DOMAIN call.cands :
            /\ appended = PickFrom(call.cands, S, 1)
            /\ \A i \in DOMAIN call.cands :
                 i \in S <=>
                   ~alreadyExists(old \o PickFrom(call.cands, {j \in S : j < i}, 1),
                                  call.cands[i])

\* a call on a non-empty list, beside another researcher's entry, that
\* appended two candidates
C3_Witness ==
  /\ call.phase = "called"
  /\ call.added = 2
  /\ call.key \in DOMAIN call.before
  /\ call.before[call.key].papers # <<>>
  /\ DOMAIN call.before # {call.key}

(***************************************************************************)
(* Claims about alreadyExists (DedupSpec).                                 *)
(***************************************************************************)
Perms(s) ==
  { [i \in DOMAIN s |-> s[f[i]]] :
      f \in {g \in [DOMAIN s -> DOMAIN s] : \A a, b \in DOMAIN s : a # b => g[a] # g[b]} }

\* C4 as stated: with a non-empty candidate DOI the result is TRUE exactly
\* when some existing record's normalized DOI equals the candidate's.
C4_DoiMatchAnyRecord ==
  (dedup.phase = "output" /\ dedup.candidate.doi # <<>>) =>
    (dedup.result <=>
       \E i \in DOMAIN dedup.list :
         normalizeDOI(dedup.list[i].doi) = normalizeDOI(dedup.candidate.doi))

\* C4 amended: with a non-empty candidate DOI the result is TRUE exactly when
\* some existing record with a non-empty DOI has a normalized DOI equal to the
\* candidate's; it depends on no title and not on the order of the list.
C4_DoiMatch ==
  (dedup.phase = "output" /\ dedup.candidate.doi # <<>>) =>
    /\ dedup.result <=>
         \E i \in DOMAIN dedup.list :
           /\ dedup.list[i].doi # <<>>
           /\ normalizeDOI(dedup.list[i].doi) = normalizeDOI(dedup.candidate.doi)
    /\ \A l \in Perms(dedup.list) : alreadyExists(l, dedup.candidate) = dedup.result
    /\ \A t1, t2 \in Titles :
         alreadyExists([i \in DOMAIN dedup.list |-> [dedup.list[i] EXCEPT !.title = t1]],
                       [dedup.candidate EXCEPT !.title = t2]) = dedup.result

\* a DOI given as a URL in upper case is found under its bare lower-case form,
\* behind a record with another DOI, with differing titles
C4_Witness ==
  /\ dedup.phase = "output"
  /\ dedup.result
  /\ dedup.candidate.doi = DoiX
  /\ Len(dedup.list) = 2
  /\ dedup.list[2].doi = DoiXUrl
  /\ dedup.list[2].title # dedup.candidate.title
  /\ dedup.list[1].doi = DoiEmpty

\* C5 as stated: with an empty candidate DOI the result is TRUE exactly when
\* some existing record with a non-empty normalized title is within distance 6
\* of the candidate's normalized title, for every candidate title.
C5_TitleMatchAnyTitle ==
  (dedup.phase = "output" /\ dedup.candidate.doi = <<>>) =>
    (dedup.result <=>
       \E i \in DOMAIN dedup.list :
         /\ normalizeTitle(dedup.list[i].title) # <<>>
         /\ levenshtein(normalizeTitle(dedup.candidate.title),
                        normalizeTitle(dedup.list[i].title)) <= 6)

\* C5 amended: with an empty candidate DOI and a non-empty candidate title the
\* result is TRUE exactly when some existing record with a non-empty normalized
\* title is within distance 6 of the candidate's normalized title; with an
\* empty candidate title the result is FALSE.
C5_TitleMatch ==
  (dedup.phase = "output" /\ dedup.candidate.doi = <<>>) =>
    IF dedup.candidate.title = <<>>
    THEN dedup.result = FALSE
    ELSE dedup.result <=>
           \E i \in DOMAIN dedup.list :
             /\ normalizeTitle(dedup.list[i].title) # <<>>
             /\ levenshtein(normalizeTitle(dedup.candidate.title),
                            normalizeTitle(dedup.list[i].title)) <= 6

\* distance 7 is no duplicate and distance 6 is: a candidate whose title
\* normalizes to '' against a 7-letter title, then a 6-letter one
C5_Witness ==
  /\ dedup.phase = "output"
  /\ dedup.result
  /\ dedup.candidate = Paper(DoiEmpty, TitlePunct)
  /\ dedup.list = <<Paper(DoiEmpty, TitleB7), Paper(DoiX, TitleA6)>>
  /\ levenshtein(normalizeTitle(TitlePunct), normalizeTitle(TitleB7)) = 7
  /\ levenshtein(normalizeTitle(TitlePunct), normalizeTitle(TitleA6)) = 6
  /\ ~alreadyExists(<<Paper(DoiEmpty, TitleB7)>>, dedup.candidate)

(***************************************************************************)
(* Claims about the run (RunSpec).                                         *)
(***************************************************************************)
Researchers == DOMAIN Entries
HasOrcidAt(i) == Entries[i].orcid \notin {"absent", ""}
Kinds == {"listing", "detail", "crossref"}

\* researcher i's store entry is exactly as it was loaded
EntryAsLoaded(i) ==
  /\ Entries[i].key \in DOMAIN existing <=> Entries[i].key \in DOMAIN hist.loaded
  /\ Entries[i].key \in DOMAIN existing =>
       existing[Entries[i].key] = hist.loaded[Entries[i].key]

\* every researcher with a registry identifier had its listing fetched
AllListingsIssued == \A j \in Researchers : HasOrcidAt(j) => <<"listing", j>> \in net.issued

\* C6: when the listing fetch of a researcher failed, that researcher's store
\* entry stays as it was loaded, the loop goes on with the next researcher,
\* and when the run is over every researcher with a registry identifier had
\* its listing fetched and the store was written.
C6_ListingFailureIsolated ==
  \A i \in Researchers :
    hist.outcome[i] = "failed" =>
      /\ EntryAsLoaded(i)
      /\ loop.idx > i
      /\ pc \in {"write", "done"} => AllListingsIssued
      /\ pc = "done" => env.file = [exists |-> TRUE, content |-> existing]

\* the first researcher's listing failed and the second one's records were
\* merged and written
C6_Witness ==
  /\ pc = "done"
  /\ Len(Entries) = 2
  /\ hist.outcome = <<"failed", "merged">>
  /\ "k2" \in DOMAIN env.file.content
  /\ env.file.content["k2"].papers # <<>>

InWorks == pc \in {"works", "cr_sleep", "crossref", "retry_sleep", "merge"}

\* C7: while a researcher's works are enriched the enriched list holds one
\* record per registry work handled so far, in registry order (so the list
\* handed to mergePapers has one record per registry work); a work whose
\* lookup failed on every attempt is there as a registry-only record
\* (registry title, authors, year, venue, source 'ORCID', DOI normalized) and
\* the pass goes on.
C7_LookupFailureIsolated ==
  /\ InWorks =>
       /\ Len(L.enriched) = L.oi - 1
       /\ \A i \in DOMAIN L.enriched :
            /\ L.enriched[i].id = L.orcidPapers[i].id
            /\ L.enriched[i].doi = normalizeDOI(L.orcidPapers[i].doi)
            /\ L.enriched[i].source = "ORCID" =>
                 /\ L.enriched[i].title = L.orcidPapers[i].title
                 /\ L.enriched[i].authors = L.orcidPapers[i].authors
                 /\ L.enriched[i].year = L.orcidPapers[i].year
                 /\ L.enriched[i].venue = L.orcidPapers[i].venue
  /\ pc = "merge" => Len(L.enriched) = Len(L.orcidPapers)
  /\ hist.lookup = "failed" =>
       /\ InWorks
       /\ L.enriched # <<>>
       /\ L.enriched[Len(L.enriched)].source = "ORCID"

\* two registry works with a DOI; the first lookup answered, the second
\* failed twice, and both records are handed to the merge
C7_Witness ==
  /\ pc = "merge"
  /\ hist.lookup = "failed"
  /\ Len(L.enriched) = 2
  /\ L.enriched[1].source = "CrossRef/ORCID"
  /\ L.enriched[2].source = "ORCID"
  /\ L.enriched[2].title # <<>>
  /\ <<"crossref", loop.idx>> \in net.issued

\* C8: a researcher without registry identifier (absent or empty orcid) has no
\* call issued for it, its store entry stays as loaded (none is created), the
\* loop goes on past it, and the run ends with exit status 0 having fetched
\* the listing of every researcher that has an identifier.
C8_NoOrcidSkipped ==
  \A i \in Researchers :
    ~HasOrcidAt(i) =>
      /\ \A kind \in Kinds : <<kind, i>> \notin net.issued
      /\ EntryAsLoaded(i)
      /\ hist.outcome[i] \in {"pending", "skipped"}
      /\ loop.idx > i => hist.outcome[i] = "skipped"
      /\ pc \in {"write", "done"} => AllListingsIssued

\* the first researcher has an empty orcid and no stored entry, the second one
\* was fetched and merged
C8_Witness ==
  /\ pc = "done"
  /\ Len(Entries) = 2
  /\ Entries[1].orcid = ""
  /\ hist.outcome = <<"skipped", "merged">>
  /\ "k1" \notin DOMAIN existing
  /\ "k2" \in DOMAIN existing

\* C9 as stated: when the registry path yields zero records for a researcher
\* with a registry identifier, an author-name search has been issued by the
\* time of the merge.
C9_FallbackSearchIssued ==
  (pc = "merge" /\ L.enriched = <<>>) => <<"search", loop.idx>> \in net.issued

\* C10: at most one outbound call is in flight, and one is in flight exactly
\* while main awaits a fetch.
C10_OneCallInFlight ==
  /\ net.inFlight \in {0, 1}
  /\ net.inFlight = 1 <=> pc \in {"listing", "detail", "crossref"}

\* the retry of a lookup is in flight, after a listing and a detail fetch of
\* the second researcher
C10_Witness ==
  /\ pc = "crossref"
  /\ L.attempt = 2
  /\ net.inFlight = 1
  /\ loop.idx = 2
  /\ {<<"listing", 1>>, <<"listing", 2>>, <<"detail", 2>>} \subseteq net.issued

(***************************************************************************)
(* Claims about the rate-limit delays (RunSpec).                           *)
(***************************************************************************)
\* two registry calls (listing, detail) for the same researcher
SameResearchersRegistry(a, b) ==
  a.idx = b.idx /\ a.kind # "crossref" /\ b.kind # "crossref"

\* C11 as stated: the call in flight, when it follows a bibliographic lookup
\* or the last registry call of a researcher (answered or failed), was
\* issued after a delay step; and the registry delay is at least the
\* bibliographic delay.
C11_DelayBeforeNextCall ==
  /\ DELAY_BETWEEN_ORCID_MS >= DELAY_BETWEEN_CROSSREF_MS
  /\ (/\ net.inFlight > 0
      /\ net.gap.after.kind # "none"
      /\ ~SameResearchersRegistry(net.gap.after, net.last))
     => net.gap.slept > 0

(***************************************************************************)
(* Claims about the exit status and the persistence (RunSpec).             *)
(***************************************************************************)
\* the mapping document is missing, unreadable or empty
FatalMapping == ~env.mapping.present \/ Entries = <<>>

\* process exit status: 1 after process.exit(1), 0 when main returned
Exited == pc \in {"exit1", "done"}
ExitStatus == IF pc = "exit1" THEN 1 ELSE 0

\* C12: with a missing, unreadable or empty mapping the run only ever exits
\* with status 1, having issued no call and written neither the store file
\* nor its backup; every other run never exits with status 1: when it has
\* exited its status is 0, whatever failed.
C12_ExitStatus ==
  /\ FatalMapping =>
       /\ pc \in {"start", "exit1"}
       /\ net.issued = {} /\ net.inFlight = 0
       /\ env.file = hist.file0 /\ env.backup = NoFile
       /\ hist.writes = 0 /\ hist.copies = 0
  /\ ~FatalMapping => pc # "exit1"
  /\ Exited => (ExitStatus = 1 <=> FatalMapping)

\* a fatal run has exited and the store file that existed is as it was
C12_Witness == pc = "exit1" /\ ExitStatus = 1 /\ hist.file0.exists /\ env.file = hist.file0

\* C13: the store file is written at most once, and only when every
\* researcher was processed or skipped; a finished run has written it once,
\* with the merged store; before the write the file is as it was found; a
\* file that existed is copied to the backup, verbatim, before the write; no
\* backup is created when no file existed.
C13_PersistOrdering ==
  /\ hist.writes <= 1 /\ hist.copies <= 1
  /\ hist.writes = 1 <=> pc = "done"
  /\ pc = "done" =>
       /\ env.file = [exists |-> TRUE, content |-> existing]
       /\ \A i \in DOMAIN hist.outcome : hist.outcome[i] # "pending"
  /\ hist.writes = 0 => env.file = hist.file0
  /\ hist.copies = 1 <=> (hist.file0.exists /\ pc \in {"write", "done"})
  /\ pc = "write" => hist.writes = 0
  /\ env.backup = IF hist.copies = 1 THEN hist.file0 ELSE NoFile

\* the file that existed was overwritten with a larger store and the backup
\* holds the old content
C13_Witness ==
  /\ pc = "done" /\ hist.file0.exists
  /\ env.backup = hist.file0
  /\ env.file.content # hist.file0.content
  /\ \E i \in DOMAIN hist.outcome : hist.outcome[i] = "failed"
  /\ \E i \in DOMAIN hist.outcome : hist.outcome[i] = "merged"

(***************************************************************************)
(* Claims about the normalizers and transformOrcidWork (PureSpec).         *)
(***************************************************************************)
\* lower-case, no surrounding whitespace, no http(s)://(dx.)doi.org/ prefix
CanonicalDoi(d) ==
  /\ toLowerCase(d) = d
  /\ d = <<>> \/ (~IsSpace(d[1]) /\ ~IsSpace(d[Len(d)]))
  /\ \A p \in DoiPrefixes : ~StartsWith(toLowerCase(d), p)

\* C14 as stated: for every input string normalizeDOI is idempotent, maps
\* '' to '', and returns a lower-case string without surrounding
\* whitespace and without a doi.org prefix.
C14_NormalizeDoiIdempotent ==
  (pure.fn = "normalizeDOI" /\ pure.phase = "output") =>
    /\ pure.again = pure.out
    /\ pure.arg = <<>> => pure.out = <<>>
    /\ CanonicalDoi(pure.out)

\* C15 as stated: for every input string normalizeTitle returns a string
\* over [a-z0-9 ] without leading or trailing space and without two
\* consecutive spaces, and maps '' to ''.
C15_NormalizeTitleClean ==
  (pure.fn = "normalizeTitle" /\ pure.phase = "output") =>
    LET out == pure.out
    IN /\ \A i \in DOMAIN out : out[i] \in Lower \cup Digit \cup {" "}
       /\ out = <<>> \/ (out[1] # " " /\ out[Len(out)] # " ")
       /\ \A i \in 1..(Len(out) - 1) : ~(out[i] = " " /\ out[i + 1] = " ")
       /\ pure.arg = <<>> => out = <<>>

\* the first identifier of DOI type in a list, normalized; '' when none
DoiTyped(ids) == {i \in DOMAIN ids : TypeIsDoi(ids[i].type)}
FirstDoiTyped(ids) ==
  IF DoiTyped(ids) = {} THEN <<>>
  ELSE LET i == CHOOSE j \in DoiTyped(ids) : \A k \in DoiTyped(ids) : j <= k
       IN normalizeDOI(Or(ids[i].value, ids[i].url))

\* C19 as stated: the record's DOI is the first DOI-typed identifier of the
\* detail when the detail has one, and otherwise the first DOI-typed
\* identifier of the summary.
C19_DetailThenSummary ==
  (pure.fn = "transformOrcidWork" /\ pure.phase = "output") =>
    pure.out.doi =
      IF pure.detail.present /\ DoiTyped(pure.detail.extIds) # {}
      THEN FirstDoiTyped(pure.detail.extIds)
      ELSE FirstDoiTyped(pure.summary.extIds)

(***************************************************************************)
(* Claims about the stored DOI (RunDoiSpec).                               *)
(***************************************************************************)
\* the records the run appended to researcher k's list
Appended(k) ==
  SubSeq(existing[k].papers, Len(PapersOf(hist.loaded, k)) + 1, Len(existing[k].papers))

\* C16 as stated: every record the run appended has a doi that is empty or
\* canonical, whatever DOI string the registry supplied and whether or not
\* the lookup succeeded.
C16_StoredDoiCanonical ==
  \A k \in DOMAIN existing :
    \A i \in DOMAIN Appended(k) : CanonicalDoi(Appended(k)[i].doi)

(***************************************************************************)
(* Claims about the lookup, the overlay and fetchOrcidWorks (RunSpec).     *)
(***************************************************************************)
\* the work whose record was pushed last
LastOp == L.orcidPapers[L.oi - 1]

\* C17: at most two lookups are issued for one work, and none for a work
\* without DOI; the second is in flight only after the first failed and
\* after the sleep of 350 ms that follows it; when the lookup has failed
\* for good the pass over the works goes on (null, not an error) and the
\* researcher is not failed.
C17_BoundedRetry ==
  /\ L.calls <= 2 /\ L.calls <= L.attempt
  /\ pc \in {"cr_sleep", "crossref", "retry_sleep"} => Op.doi # <<>>
  /\ L.calls > 0 => (pc \in {"crossref", "retry_sleep"} /\ Op.doi # <<>>)
  /\ pc = "crossref" =>
       /\ L.attempt \in {1, 2} /\ L.calls = L.attempt
       /\ L.attempt = 1 => ~L.failed1
       /\ L.attempt = 2 =>
            /\ L.failed1
            /\ net.gap.after = [kind |-> "crossref", idx |-> loop.idx]
            /\ net.gap.slept = RETRY_DELAY_MS
  /\ hist.lookup = "failed" =>
       /\ InWorks
       /\ hist.outcome[loop.idx] = "pending"
       /\ LastOp.doi # <<>>
  /\ hist.lookup = "nodoi" => LastOp.doi = <<>>

\* a work with a DOI whose two lookups failed is in the enriched list and
\* the pass is back at the loop over the works
C17_Witness ==
  /\ pc = "works"
  /\ hist.lookup = "failed"
  /\ normalizeDOI(LastOp.doi) # <<>>
  /\ net.last = [kind |-> "crossref", idx |-> loop.idx]
  /\ L.calls = 0 /\ L.enriched # <<>>

\* C18: in the enriched list, a record whose lookup answered has, for each
\* of title, authors, year, venue and url, the lookup's value when that is
\* non-empty and the registry's otherwise, and the source 'CrossRef/ORCID';
\* a record without DOI or whose lookup failed has the registry's id, title,
\* authors, year, venue and url, its DOI normalized, and the source 'ORCID'.
C18_Overlay ==
  InWorks =>
    /\ Len(L.crs) = Len(L.enriched)
    /\ \A i \in DOMAIN L.enriched :
         LET op == L.orcidPapers[i]
             fin == L.enriched[i]
             cr == L.crs[i]
         IN /\ fin.id = op.id
            /\ fin.doi = normalizeDOI(op.doi)
            /\ IF cr.present
               THEN /\ op.doi # <<>>
                    /\ fin.title = IF cr.rec.title # <<>> THEN cr.rec.title ELSE op.title
                    /\ fin.authors =
                         IF cr.rec.authors # <<>> THEN cr.rec.authors ELSE op.authors
                    /\ fin.year = IF cr.rec.year # 0 THEN cr.rec.year ELSE op.year
                    /\ fin.venue = IF cr.rec.venue # "" THEN cr.rec.venue ELSE op.venue
                    /\ fin.url = IF cr.rec.url # <<>> THEN cr.rec.url ELSE op.url
                    /\ fin.source = "CrossRef/ORCID"
               ELSE /\ fin.title = op.title
                    /\ fin.authors = op.authors
                    /\ fin.year = op.year
                    /\ fin.venue = op.venue
                    /\ fin.url = op.url
                    /\ fin.source = "ORCID"

\* two works with a DOI: the first lookup answered with a title of its own,
\* the second answered without one and the record keeps the registry title
C18_Witness ==
  /\ pc = "merge"
  /\ Len(L.enriched) = 2
  /\ L.crs[1].present /\ L.crs[1].rec.title # <<>>
  /\ L.enriched[1].title = L.crs[1].rec.title
  /\ L.enriched[1].title # L.orcidPapers[1].title
  /\ L.crs[2].present /\ L.crs[2].rec.title = <<>>
  /\ L.enriched[2].title = L.orcidPapers[2].title
  /\ L.enriched[2].title # <<>>

\* the groups that have a work summary, among the first n of the listing
WithSummary(n) == SelectSeq(SubSeq(L.groups, 1, n), LAMBDA g : g # <<>>)

\* C20: while fetchOrcidWorks runs, papers holds one record per group
\* handled so far that has a summary, in group order, built from the
\* group's first summary, and from the summary alone when the detail fetch
\* failed or was not made; what it returns is that list once every group
\* was handled, one record per group with a summary; a researcher fails
\* only through the listing call.
C20_OneRecordPerGroup ==
  /\ pc \in {"groups", "detail", "detail_sleep"} =>
       LET done == WithSummary(L.gi - 1)
       IN /\ Len(L.papers) = Len(done)
          /\ Len(L.how) = Len(done)
          /\ \A j \in DOMAIN done :
               /\ L.papers[j].id = transformOrcidWork(done[j][1], NoDetail).id
               /\ L.how[j] = "none" <=> done[j][1].putCode = ""
               /\ L.how[j] # "ok" => L.papers[j] = transformOrcidWork(done[j][1], NoDetail)
  /\ InWorks =>
       /\ L.orcidPapers = L.papers
       /\ Len(L.orcidPapers) = Len(WithSummary(Len(L.groups)))
  /\ \A i \in DOMAIN hist.outcome :
       hist.outcome[i] = "failed" => <<"detail", i>> \notin net.issued

\* fetchOrcidWorks is about to return one record for a listing of an empty
\* group and a group whose detail fetch failed
C20_Witness ==
  /\ pc = "groups"
  /\ Len(L.groups) = 2 /\ L.gi = 3
  /\ L.groups[1] = <<>>
  /\ L.how = <<"failed">>
  /\ Len(L.papers) = 1

====
